---- MODULE Spec2Model ----
(***************************************************************************)
(* Block archive of packages/daemons/creating_blockchain.go: the record    *)
(* frame (marshallFileBlock / readBlock / unmarshalBlockData), the reverse *)
(* locator (getLastBlockID) and the catch-up writer (writeNextBlocks).     *)
(*                                                                         *)
(* Numbers are scaled so that TLC's 32-bit integers can hold them: a byte  *)
(* has ByteBase values instead of 256, so a WordSize-byte field holds the  *)
(* values below ByteBase^WordSize, and the ids of the model range beyond   *)
(* that value as the int64 ids of the program range beyond 2^40.           *)
(***************************************************************************)
EXTENDS Integers, Sequences, FiniteSets, TLC

VARIABLES
    file,    \* the archive: [exists |-> BOOLEAN, data |-> sequence of bytes]
    blocks,  \* the ledger: blocks[i] is the payload of the block with id i
    res,     \* outcome of the last call (its inputs and what it returned)
    arch,    \* history: one entry per frame write, <<id, bytes written, frame length>>
    rec,     \* codec: the record given to marshallFileBlock
    frame,   \* codec: the bytes handed to readBlock
    decoded  \* codec: what readBlock returned

vars == <<file, blocks, res, arch, rec, frame, decoded>>

----------------------------------------------------------------------------
(* Program constant and bounds *)

WordSize == 5

ByteBase == 8

MaxBlockSize == 24

MaxHeight == 3

MaxBatch == 2

MaxRecords == 3

WordMax == ByteBase ^ WordSize

----------------------------------------------------------------------------
(* converter: fixed-width and length-prefixed encodings *)

RECURSIVE DecToBin(_, _)
\* sizeBytes big-endian bytes of dec; a value that needs more bytes keeps its
\* low-order sizeBytes bytes.
DecToBin(dec, sizeBytes) ==
    IF sizeBytes = 0 THEN <<>>
    ELSE Append(DecToBin(dec \div ByteBase, sizeBytes - 1), dec % ByteBase)

RECURSIVE BinToDec(_)
BinToDec(bin) ==
    IF bin = <<>> THEN 0
    ELSE BinToDec(SubSeq(bin, 1, Len(bin) - 1)) * ByteBase + bin[Len(bin)]

RECURSIVE StripZeros(_)
StripZeros(bin) ==
    IF bin # <<>> /\ bin[1] = 0 THEN StripZeros(Tail(bin)) ELSE bin

RECURSIVE MinBytes(_)
\* the big-endian bytes of n without leading zeros (none for 0)
MinBytes(n) ==
    IF n = 0 THEN <<>> ELSE Append(MinBytes(n \div ByteBase), n % ByteBase)

\* length prefix: one byte counting the length bytes, then that many
\* big-endian bytes
EncodeLength(length) ==
    LET b == MinBytes(length) IN <<Len(b)>> \o b

EncodeLengthPlusData(data) == EncodeLength(Len(data)) \o data

\* Decodes the prefix at the head of buf: [err, val, rest]. A value of more
\* than WordSize significant bytes is above every buffer length and every
\* limit of the model and is reported as WordMax.
DecodeLength(buf) ==
    IF buf = <<>> THEN [err |-> "nil", val |-> 0, rest |-> buf]
    ELSE LET n == buf[1] IN
         IF Len(buf) < n + 1
         THEN [err |-> "length", val |-> 0, rest |-> buf]
         ELSE LET s == StripZeros(SubSeq(buf, 2, n + 1)) IN
              [err  |-> "nil",
               val  |-> IF Len(s) > WordSize THEN WordMax ELSE BinToDec(s),
               rest |-> SubSeq(buf, n + 2, Len(buf))]

----------------------------------------------------------------------------
(* The record frame *)

blockData(id, data) == [ID |-> id, Data |-> data]

NoBlock == blockData(0, <<>>)

\* the frame with the header value repeated as the trailer
marshallFileBlockSameTrailer(b) ==
    LET data        == DecToBin(b.ID, WordSize) \o EncodeLengthPlusData(b.Data)
        sizeAndData == DecToBin(Len(data), WordSize) \o data
    IN  sizeAndData \o DecToBin(Len(data), WordSize)

marshallFileBlock(b) ==
    LET data        == DecToBin(b.ID, WordSize) \o EncodeLengthPlusData(b.Data)
        sizeAndData == DecToBin(Len(data), WordSize) \o data
    IN  sizeAndData \o DecToBin(Len(sizeAndData), WordSize)

\* [err, block]
unmarshalBlockData(buff) ==
    LET blockID == BinToDec(SubSeq(buff, 1, WordSize))
        d       == DecodeLength(SubSeq(buff, WordSize + 1, Len(buff)))
    IN  IF d.err # "nil" THEN [err |-> "length", block |-> NoBlock]
        ELSE IF d.val > Len(d.rest) THEN [err |-> "bad length", block |-> NoBlock]
        ELSE [err |-> "nil", block |-> blockData(blockID, SubSeq(d.rest, 1, d.val))]

Zeros(n) == [i \in 1 .. n |-> 0]

\* the size check left out
ExceedsMaxNever(size) == FALSE

\* The size check of readBlock and getLastBlockID
ExceedsMax(size) == size > MaxBlockSize

\* readBlock on a reader positioned pos bytes into data:
\* [err, nil, block, alloc]; nil is the (nil, nil) return, alloc the size of
\* the largest buffer made.
readBlock(data, pos) ==
    LET avail == Len(data) - pos
        size  == BinToDec(SubSeq(data, pos + 1, pos + WordSize))
        want  == size + WordSize
        got   == IF avail - WordSize < want THEN avail - WordSize ELSE want
        dataBinary == SubSeq(data, pos + WordSize + 1, pos + WordSize + got)
                          \o Zeros(want - got)
        u     == unmarshalBlockData(dataBinary)
    IN  IF avail < WordSize
        THEN [err |-> "read", nil |-> TRUE, block |-> NoBlock, alloc |-> WordSize]
        ELSE IF ExceedsMax(size)
        THEN [err |-> "limit", nil |-> TRUE, block |-> NoBlock, alloc |-> WordSize]
        ELSE IF size = 0
        THEN [err |-> "nil", nil |-> TRUE, block |-> NoBlock, alloc |-> WordSize]
        ELSE IF got = 0
        THEN [err |-> "read", nil |-> TRUE, block |-> NoBlock, alloc |-> want]
        ELSE IF u.err # "nil"
        THEN [err |-> u.err, nil |-> TRUE, block |-> NoBlock, alloc |-> want]
        ELSE [err |-> "nil", nil |-> FALSE, block |-> u.block, alloc |-> want]

----------------------------------------------------------------------------
(* The reverse locator *)

NoFile == [exists |-> FALSE, data |-> <<>>]

\* the locator taking an existing empty file for a missing one
getLastBlockIDEmptyOk(f) ==
    LET n    == Len(f.data)
        size == BinToDec(SubSeq(f.data, n - WordSize + 1, n))
        b    == readBlock(f.data, n - (size + WordSize))
    IN  IF ~f.exists \/ n = 0 THEN [err |-> "nil", id |-> 0]
        ELSE IF n < WordSize THEN [err |-> "seek", id |-> 0]
        ELSE IF ExceedsMax(size) THEN [err |-> "limit", id |-> 0]
        ELSE IF size + WordSize > n THEN [err |-> "seek", id |-> 0]
        ELSE IF b.err # "nil" THEN [err |-> b.err, id |-> 0]
        ELSE IF b.nil THEN [err |-> "panic", id |-> 0]
        ELSE [err |-> "nil", id |-> b.block.ID]

\* [err, id]; err "panic" is the nil dereference of block.ID after readBlock
\* returned (nil, nil).
getLastBlockID(f) ==
    LET n    == Len(f.data)
        size == BinToDec(SubSeq(f.data, n - WordSize + 1, n))
        b    == readBlock(f.data, n - (size + WordSize))
    IN  IF ~f.exists THEN [err |-> "nil", id |-> 0]
        ELSE IF n = 0 THEN [err |-> "empty", id |-> 0]
        ELSE IF n < WordSize THEN [err |-> "seek", id |-> 0]
        ELSE IF ExceedsMax(size) THEN [err |-> "limit", id |-> 0]
        ELSE IF size + WordSize > n THEN [err |-> "seek", id |-> 0]
        ELSE IF b.err # "nil" THEN [err |-> b.err, id |-> 0]
        ELSE IF b.nil THEN [err |-> "panic", id |-> 0]
        ELSE [err |-> "nil", id |-> b.block.ID]

----------------------------------------------------------------------------
(* The ledger *)

Payload(id, n) == [i \in 1 .. n |-> (id + i) % ByteBase]

\* the blocks with startBlockID < id <= endblockID, in ascending id order
GetBlockchain(chain, startBlockID, endblockID) ==
    LET lo == IF startBlockID < 0 THEN 0 ELSE startBlockID
        hi == IF endblockID > Len(chain) THEN Len(chain) ELSE endblockID
    IN  [i \in 1 .. (hi - lo) |-> blockData(lo + i, chain[lo + i])]

----------------------------------------------------------------------------
(* The catch-up writer *)

\* the threshold test with the batch size added instead of subtracted
NotEnoughAdded(curBlockID, minToSave, lastSavedBlockID) ==
    curBlockID + minToSave < lastSavedBlockID

\* line 53: not enough blocks to save
NotEnough(curBlockID, minToSave, lastSavedBlockID) ==
    curBlockID - minToSave < lastSavedBlockID

\* the batch without its upper end: every block above the last saved one
BlocksToSaveAll(chain, lastSavedBlockID, minToSave) ==
    GetBlockchain(chain, lastSavedBlockID, Len(chain))

\* the batch starting one block early, at the last saved block itself
BlocksToSaveFromLast(chain, lastSavedBlockID, minToSave) ==
    GetBlockchain(chain, lastSavedBlockID - 1, lastSavedBlockID + minToSave)

\* line 60: the blocks asked of the ledger
BlocksToSave(chain, lastSavedBlockID, minToSave) ==
    GetBlockchain(chain, lastSavedBlockID, lastSavedBlockID + minToSave)

\* a write that replaces the content instead of appending to it
OverwriteBytes(data, buff) == buff

\* file.Write on a file opened with O_APPEND
AppendBytes(data, buff) == data \o buff

RECURSIVE WriteAll(_, _)
WriteAll(data, buffs) ==
    IF buffs = <<>> THEN data
    ELSE WriteAll(AppendBytes(data, Head(buffs)), Tail(buffs))

NoFail == [kind |-> "none", at |-> 0, torn |-> 0]

\* what a writeNextBlocks call leaves and returns; l is what getLastBlockID
\* returned to it, queried whether the ledger was asked for blocks, wrote the
\* frame writes made: <<id, bytes written, frame length>> each
Returned(f, err, l, queried, wrote) ==
    [file |-> f, err |-> err, located |-> l.err, last |-> l.id,
     queried |-> queried, wrote |-> wrote]

\* lines 73-81: the frames buffs of the blocks batch are written in order; a
\* write that fails leaves fail.torn bytes of frame fail.at and ends the loop
writeLoop(f, l, fail, batch, buffs) ==
    LET failing == fail.kind = "write" /\ fail.at <= Len(batch)
        nFull   == IF failing THEN fail.at - 1 ELSE Len(batch)
        torn    == failing /\ fail.torn > 0
        part    == IF torn THEN <<SubSeq(buffs[fail.at], 1, fail.torn)>> ELSE <<>>
    IN  Returned([exists |-> TRUE,
                  data |-> WriteAll(f.data, SubSeq(buffs, 1, nFull) \o part)],
                 IF failing THEN "io" ELSE "nil", l, TRUE,
                 [i \in 1 .. nFull |-> <<batch[i].ID, Len(buffs[i]), Len(buffs[i])>>]
                 \o (IF torn
                     THEN <<<<batch[fail.at].ID, fail.torn, Len(buffs[fail.at])>>>>
                     ELSE <<>>))

\* lines 66-81: open for append, creating the file, and write the batch
writeBatch(f, l, fail, batch) ==
    IF fail.kind = "open" THEN Returned(f, "io", l, TRUE, <<>>)
    ELSE writeLoop(f, l, fail, batch,
                   [i \in 1 .. Len(batch) |-> marshallFileBlock(batch[i])])

\* lines 40-64: the call after getLastBlockID returned l
afterLocate(f, chain, minToSave, fail, l) ==
    IF l.err # "nil" THEN Returned(f, l.err, l, FALSE, <<>>)
    ELSE IF fail.kind = "info" THEN Returned(f, "db", l, FALSE, <<>>)
    ELSE IF NotEnough(Len(chain), minToSave, l.id) THEN Returned(f, "nil", l, FALSE, <<>>)
    ELSE IF fail.kind = "chain" THEN Returned(f, "db", l, TRUE, <<>>)
    ELSE writeBatch(f, l, fail, BlocksToSave(chain, l.id, minToSave))

\* One call of writeNextBlocks on archive f and ledger chain. fail is what the
\* environment does to it: nothing, an error of infoBlock.Get ("info"), of
\* GetBlockchain ("chain"), of os.OpenFile ("open"), or of the write of the
\* at-th frame after torn of its bytes reached the file ("write").
writeNextBlocks(f, chain, minToSave, fail) ==
    afterLocate(f, chain, minToSave, fail, getLastBlockID(f))

----------------------------------------------------------------------------
(* State machine of the archive job *)

LedgerLens == {1, ByteBase + 1, MaxBlockSize}

\* bytes of the failing frame that reached the file before the write failed
TornLens == {0, WordSize, 2 * WordSize - 1, 2 * WordSize + 1}

Fail(kind, at, torn) == [kind |-> kind, at |-> at, torn |-> torn]

\* What the environment can do to a call that located l and would write
\* batchLen frames: only the steps the call reaches can fail, and a write can
\* only fail at a frame of the batch, after fewer bytes than the frame has.
FailModesAfter(l, notEnough, batchLen) ==
    IF l.err # "nil" THEN {NoFail}
    ELSE IF notEnough THEN {NoFail, Fail("info", 0, 0)}
    ELSE {NoFail, Fail("info", 0, 0), Fail("chain", 0, 0), Fail("open", 0, 0)}
         \cup {Fail("write", j, t) : j \in 1 .. batchLen, t \in TornLens}

FailModesOf(l, minToSave) ==
    FailModesAfter(l, NotEnough(Len(blocks), minToSave, l.id),
                   Len(BlocksToSave(blocks, l.id, minToSave)))

FailModes(minToSave) == FailModesOf(getLastBlockID(file), minToSave)

NoRes ==
    [op |-> "none", err |-> "nil", located |-> "nil", last |-> 0, min |-> 0,
     queried |-> FALSE, fail |-> NoFail, pre |-> NoFile, wrote |-> <<>>]

NoRec == [ID |-> 0, Data |-> <<>>]

NoDecoded == [done |-> FALSE, r |-> [err |-> "nil", nil |-> TRUE, block |-> NoBlock, alloc |-> 0]]

CodecIdle == rec = NoRec /\ frame = <<>> /\ decoded = NoDecoded

Init ==
    /\ file = NoFile
    /\ blocks = <<>>
    /\ res = NoRes
    /\ arch = <<>>
    /\ CodecIdle

\* the ledger produces the next block
NewBlock(n) ==
    /\ Len(blocks) < MaxHeight
    /\ blocks' = Append(blocks, Payload(Len(blocks) + 1, n))
    /\ res' = [NoRes EXCEPT !.op = "newblock"]
    /\ UNCHANGED <<file, arch, rec, frame, decoded>>

WriteNextBlocks(minToSave, fail) ==
    LET w == writeNextBlocks(file, blocks, minToSave, fail) IN
    /\ file' = w.file
    /\ arch' = arch \o w.wrote
    /\ res' = [op |-> "write", err |-> w.err, located |-> w.located,
               last |-> w.last, min |-> minToSave, queried |-> w.queried,
               fail |-> fail, pre |-> file, wrote |-> w.wrote]
    /\ UNCHANGED <<blocks, rec, frame, decoded>>

GetLastBlockID ==
    LET l == getLastBlockID(file) IN
    /\ res' = [NoRes EXCEPT !.op = "locate", !.err = l.err, !.located = l.err,
                            !.last = l.id, !.pre = file]
    /\ UNCHANGED <<file, blocks, arch, rec, frame, decoded>>

Next ==
    \/ \E n \in LedgerLens : NewBlock(n)
    \/ \E m \in 0 .. MaxBatch : \E f \in FailModes(m) : WriteNextBlocks(m, f)
    \/ GetLastBlockID

Spec == Init /\ [][Next]_vars

\* the cycles whose write failures stop between two frames
NextClean ==
    \/ \E n \in LedgerLens : NewBlock(n)
    \/ \E m \in 0 .. MaxBatch :
           \E f \in {g \in FailModes(m) : g.torn = 0} : WriteNextBlocks(m, f)
    \/ GetLastBlockID

SpecClean == Init /\ [][NextClean]_vars

----------------------------------------------------------------------------
(* Frames appended to a fresh file, then located *)

ArchiveIds == {1, 3, ByteBase + 1, WordMax - 1}

ArchiveLens ==
    {0, 1, ByteBase + 1, MaxBlockSize - 2 * WordSize - 3,
     MaxBlockSize - 2 * WordSize - 2, MaxBlockSize}

\* lines 74-76 for one record chosen by the caller: marshal it and append it
AppendRecord(id, n) ==
    LET buff == marshallFileBlock(blockData(id, Payload(id, n))) IN
    /\ Len(arch) < MaxRecords
    /\ IF arch = <<>> THEN TRUE ELSE arch[Len(arch)][1] < id
    /\ file' = [exists |-> TRUE, data |-> AppendBytes(file.data, buff)]
    /\ arch' = Append(arch, <<id, Len(buff), Len(buff)>>)
    /\ res' = [NoRes EXCEPT !.op = "append", !.pre = file]
    /\ UNCHANGED <<blocks, rec, frame, decoded>>

NextArchive ==
    \/ \E id \in ArchiveIds, n \in ArchiveLens : AppendRecord(id, n)
    \/ GetLastBlockID

SpecArchive == Init /\ [][NextArchive]_vars

----------------------------------------------------------------------------
(* The codec on its own: marshal a record, decode the frame *)

CodecIds == {0, 1, ByteBase, WordMax - 1, WordMax, WordMax + 1, 2 * WordMax + 3}

CodecLens == 0 .. (MaxBlockSize + 1)

\* header sizes and declared payload lengths of the frames that no
\* marshallFileBlock call produced
ForgedSizes == {0, 1, WordSize + 1, MaxBlockSize, MaxBlockSize + 1}

ForgedLens == {MaxBlockSize + 1, MaxBlockSize + WordSize, WordMax - 1}

\* the frame of b with its size fields set to size and its length prefix to
\* declared
ForgedFrame(b, size, declared) ==
    DecToBin(size, WordSize) \o DecToBin(b.ID, WordSize) \o EncodeLength(declared)
        \o b.Data \o DecToBin(size + WordSize, WordSize)

InitCodec ==
    /\ file = NoFile /\ blocks = <<>> /\ res = NoRes /\ arch = <<>>
    /\ rec \in {blockData(id, Payload(id, n)) : id \in CodecIds, n \in CodecLens}
    /\ frame = <<>>
    /\ decoded = NoDecoded

Marshall ==
    /\ frame = <<>>
    /\ frame' = marshallFileBlock(rec)
    /\ UNCHANGED <<file, blocks, res, arch, rec, decoded>>

Forge(size, declared) ==
    /\ frame = marshallFileBlock(rec)
    /\ ~decoded.done
    /\ frame' = ForgedFrame(rec, size, declared)
    /\ UNCHANGED <<file, blocks, res, arch, rec, decoded>>

\* readBlock from the frame start
ReadBlock ==
    /\ frame # <<>>
    /\ ~decoded.done
    /\ decoded' = [done |-> TRUE, r |-> readBlock(frame, 0)]
    /\ UNCHANGED <<file, blocks, res, arch, rec, frame>>

NextCodec ==
    \/ Marshall
    \/ \E h \in ForgedSizes, d \in ForgedLens : Forge(h, d)
    \/ ReadBlock

SpecCodec == InitCodec /\ [][NextCodec]_vars

----------------------------------------------------------------------------
(* Helpers of the properties *)

IsPrefix(s, t) == Len(s) <= Len(t) /\ SubSeq(t, 1, Len(s)) = s

RECURSIVE Flatten(_)
Flatten(ss) == IF ss = <<>> THEN <<>> ELSE Head(ss) \o Flatten(Tail(ss))

\* the frames of the ledger blocks lo+1 .. hi, in ascending id order
LedgerFrames(lo, hi) ==
    Flatten([i \in 1 .. (hi - lo) |-> marshallFileBlock(blockData(lo + i, blocks[lo + i]))])

RECURSIVE FrameIds(_)
\* the ids of the records of an archive read front to back by the record
\* format: header size, id, body, trailer
FrameIds(data) ==
    IF Len(data) < 2 * WordSize THEN <<>>
    ELSE <<BinToDec(SubSeq(data, WordSize + 1, 2 * WordSize))>>
         \o FrameIds(SubSeq(data, BinToDec(SubSeq(data, 1, WordSize)) + 2 * WordSize + 1,
                            Len(data)))

StrictlyIncreasing(ids) == \A i \in 1 .. (Len(ids) - 1) : ids[i] < ids[i + 1]

\* the call just made was writeNextBlocks, it located the last saved id and
\* read the chain height
Wrote == res.op = "write" /\ res.located = "nil" /\ res.fail.kind # "info"

\* k >= 1 complete frames followed by a proper, non-empty prefix of one more
TruncatedTail ==
    /\ Len(arch) >= 2
    /\ \A i \in 1 .. (Len(arch) - 1) : arch[i][2] = arch[i][3]
    /\ arch[Len(arch)][2] < arch[Len(arch)][3]

----------------------------------------------------------------------------
(* Properties *)

\* C3 (batch threshold no-op): a writeNextBlocks call that finds
\* current_height - min_batch < last_saved_id returns success, leaves the
\* archive as it was (no bytes appended, an absent file not created) and does
\* not ask the ledger for blocks.
C3_ThresholdNoOp ==
    (Wrote /\ Len(blocks) - res.min < res.last)
        => /\ res.err = "nil"
           /\ file = res.pre
           /\ ~res.queried
           /\ res.wrote = <<>>

C3_Witness ==
    /\ Wrote /\ Len(blocks) - res.min < res.last
    /\ res.pre.exists /\ res.last >= 1 /\ Len(blocks) >= res.last
    /\ file = res.pre

\* C4 (batch range): a writeNextBlocks call that finds
\* current_height - min_batch >= last_saved_id and meets no I/O error appends
\* exactly the frames of the ledger blocks last_saved_id+1 .. last_saved_id +
\* min_batch, each once, in ascending id order, and nothing else.
C4_BatchRange ==
    (Wrote /\ res.fail = NoFail /\ Len(blocks) - res.min >= res.last)
        => /\ res.err = "nil"
           /\ file.exists
           /\ file.data = res.pre.data \o LedgerFrames(res.last, res.last + res.min)
           /\ [i \in 1 .. Len(res.wrote) |-> res.wrote[i][1]]
                  = [i \in 1 .. res.min |-> res.last + i]

C4_Witness ==
    /\ Wrote /\ res.fail = NoFail /\ Len(blocks) - res.min >= res.last
    /\ res.last >= 1 /\ res.min >= 1
    /\ Len(blocks) > res.last + res.min
    /\ file.data = res.pre.data \o LedgerFrames(res.last, res.last + res.min)

\* C5 as stated (idempotent resume): of two writeNextBlocks calls in a row with
\* the same min_batch and an unchanged ledger, the second appends no bytes
\* (checked for the calls that meet no ledger or I/O error).
C5_SecondCallNoOp ==
    [][(/\ res.op = "write" /\ res.fail = NoFail
        /\ res'.op = "write" /\ res'.fail = NoFail
        /\ res'.min = res.min)
           => file'.data = file.data]_vars

\* C5 amended: of two writeNextBlocks calls in a row with the same min_batch
\* and an unchanged ledger, the second appends no bytes when the first left
\* current_height - min_batch below the last id of the archive; otherwise the
\* second call writes the next batch.
C5_SecondCallNoOpBelowThreshold ==
    [][(/\ res.op = "write" /\ res'.op = "write" /\ res'.min = res.min
        /\ getLastBlockID(file).err = "nil"
        /\ Len(blocks) - res.min < getLastBlockID(file).id)
           => file' = file]_vars

C5_Witness ==
    /\ res.op = "write" /\ res.err = "nil" /\ res.wrote = <<>>
    /\ res.located = "nil" /\ res.last >= 1 /\ res.min >= 1
    /\ Len(blocks) - res.min < res.last
    /\ Len(res.pre.data) >= 1
    /\ Len(arch) >= 1 /\ arch[Len(arch)][1] = res.last

\* C6 (truncated tail tolerance): on an archive of k >= 1 complete frames
\* followed by a proper, non-empty prefix of one more frame, getLastBlockID
\* returns the id of the k-th record without error.
C6_TruncatedTail ==
    (res.op = "locate" /\ TruncatedTail)
        => /\ res.err = "nil"
           /\ res.last = arch[Len(arch) - 1][1]

\* C8 (empty versus missing): getLastBlockID returns id 0 without error when
\* there is no file and an error when the file exists with length 0;
\* writeNextBlocks goes on with last_saved_id = 0 in the first case and
\* returns the error without writing in the second.
C8_EmptyVersusMissing ==
    /\ (res.op \in {"locate", "write"} /\ ~res.pre.exists)
           => res.located = "nil" /\ res.last = 0
    /\ (res.op \in {"locate", "write"} /\ res.pre.exists /\ res.pre.data = <<>>)
           => res.located = "empty"
    /\ (res.op = "write" /\ ~res.pre.exists /\ res.fail = NoFail
            /\ res.min >= 1 /\ Len(blocks) >= res.min)
           => res.queried /\ res.err = "nil" /\ file.exists
    /\ (res.op = "write" /\ res.pre.exists /\ res.pre.data = <<>>)
           => res.err = "empty" /\ file = res.pre /\ ~res.queried

C8_Witness ==
    /\ res.op = "write" /\ res.pre.exists /\ res.pre.data = <<>>
    /\ res.err = "empty" /\ Len(blocks) >= 1 /\ res.min >= 1

\* C10 (append-only): across every call, failing ones included, the archive's
\* content before the call is a prefix of its content after it and an existing
\* file stays; a getLastBlockID call changes nothing of the file.
C10_AppendOnly ==
    [][/\ IsPrefix(file.data, file'.data)
       /\ (file.exists => file'.exists)
       /\ (res'.op = "locate" => file' = file)]_vars

C10_Witness ==
    /\ res.op = "write" /\ res.err = "io"
    /\ res.pre.data # <<>>
    /\ Len(file.data) > Len(res.pre.data)
    /\ IsPrefix(res.pre.data, file.data)

\* C7 (strictly increasing ids): in every state reached by writeNextBlocks
\* cycles from an absent archive, with write failures that stop a cycle
\* between two frames, the ids of the records of the file, read front to
\* back, are strictly increasing (no id twice), and they are the ids written.
C7_StrictlyIncreasing ==
    /\ StrictlyIncreasing(FrameIds(file.data))
    /\ FrameIds(file.data) = [i \in 1 .. Len(arch) |-> arch[i][1]]

C7_Witness ==
    /\ res.op = "write" /\ res.err = "nil" /\ res.wrote # <<>>
    /\ res.pre.data # <<>> /\ res.last >= 1
    /\ \E i \in 1 .. Len(arch) : arch[i][1] = res.last
    /\ Len(FrameIds(file.data)) >= 3
    /\ StrictlyIncreasing(FrameIds(file.data))

\* the header size field of a frame and the payload length its prefix declares
HeaderSize(fr) == BinToDec(SubSeq(fr, 1, WordSize))

DeclaredLen(fr) == DecodeLength(SubSeq(fr, 2 * WordSize + 1, Len(fr))).val

\* C1 (reverse-locate correctness): after the frames of records with ids
\* i1 < ... < iN and payloads of at most max_block_size bytes are appended to
\* a fresh file, getLastBlockID returns iN without error; with nothing
\* appended (no file) it returns id 0 without error.
C1_ReverseLocate ==
    res.op = "locate"
        => /\ res.err = "nil"
           /\ res.last = IF arch = <<>> THEN 0 ELSE arch[Len(arch)][1]

\* C2 (round trip): for a record with any id and a payload of at most
\* max_block_size bytes, readBlock on the frame marshallFileBlock made of it
\* returns the same id and the same payload, with no error.
C2_RoundTrip ==
    (decoded.done /\ frame = marshallFileBlock(rec) /\ Len(rec.Data) <= MaxBlockSize)
        => /\ decoded.r.err = "nil"
           /\ ~decoded.r.nil
           /\ decoded.r.block = blockData(rec.ID, rec.Data)

TrailerSize(fr) == BinToDec(SubSeq(fr, Len(fr) - WordSize + 1, Len(fr)))

\* C11 as stated (header and trailer identical): in every frame made by
\* marshallFileBlock the trailer holds the same value as the header, the byte
\* length of what lies between them.
C11_TrailerEqualsHeader ==
    (frame # <<>> /\ frame = marshallFileBlock(rec))
        => /\ HeaderSize(frame) = Len(frame) - 2 * WordSize
           /\ TrailerSize(frame) = HeaderSize(frame)

\* C11 amended: in every frame made by marshallFileBlock the header holds the
\* byte length of what lies between header and trailer (id field + length
\* prefix + payload), and the trailer holds that value plus WordSize: the
\* byte length of the header and of what lies between them.
C11_TrailerIsHeaderPlusWord ==
    (frame # <<>> /\ frame = marshallFileBlock(rec))
        => /\ HeaderSize(frame) = Len(frame) - 2 * WordSize
           /\ HeaderSize(frame) = WordSize + Len(EncodeLength(Len(rec.Data))) + Len(rec.Data)
           /\ TrailerSize(frame) = HeaderSize(frame) + WordSize

C11_Witness ==
    /\ frame # <<>> /\ frame = marshallFileBlock(rec)
    /\ Len(rec.Data) >= ByteBase
    /\ TrailerSize(frame) = HeaderSize(frame) + WordSize
    /\ ~decoded.done

\* offset of the first byte of the last frame written, by the history
LastFrameOffset == Len(file.data) - arch[Len(arch)][3]

\* C12 (reverse seek lands on the header): for an archive of one or more
\* frames made by marshallFileBlock, the value s of its last WordSize bytes
\* makes length - (s + WordSize) the offset of the last frame's header, and
\* readBlock from there consumes the bytes up to the end of the file and
\* yields the last record's id.
C12_SeekLandsOnHeader ==
    arch # <<>>
        => LET n   == Len(file.data)
               s   == BinToDec(SubSeq(file.data, n - WordSize + 1, n))
               pos == n - (s + WordSize)
               b   == readBlock(file.data, pos)
           IN  /\ pos = LastFrameOffset
               /\ pos >= 0
               /\ BinToDec(SubSeq(file.data, pos + 1, pos + WordSize)) + 2 * WordSize
                      = n - pos
               /\ (b.err = "nil" /\ ~b.nil)
                      => /\ WordSize + b.alloc = n - pos
                         /\ b.block.ID = arch[Len(arch)][1]

C12_Witness ==
    /\ Len(arch) >= 2
    /\ res.op = "locate" /\ res.err = "nil" /\ res.last = arch[Len(arch)][1]
    /\ LastFrameOffset > 0
    /\ Len(file.data) - (TrailerSize(file.data) + WordSize) = LastFrameOffset

\* lines 162-187 reach readBlock and the size field it reads there is zero
ZeroSizeLocated(f) ==
    LET n    == Len(f.data)
        size == BinToDec(SubSeq(f.data, n - WordSize + 1, n))
        pos  == n - (size + WordSize)
    IN  /\ f.exists
        /\ n >= WordSize
        /\ ~ExceedsMax(size)
        /\ size + WordSize <= n
        /\ BinToDec(SubSeq(f.data, pos + 1, pos + WordSize)) = 0

\* C13 (zero-size sentinel): when the size field read at the located header
\* position is zero, getLastBlockID completes with the 'no record' result
\* (id 0, no error); it neither reports an error nor crashes.
C13_ZeroSizeIsNoRecord ==
    (res.op = "locate" /\ ZeroSizeLocated(res.pre))
        => (res.err = "nil" /\ res.last = 0)

\* C14 (archive absent or non-empty): in every state reached by
\* writeNextBlocks cycles from an absent archive the file either does not
\* exist or holds at least one complete record; it never exists with length 0.
C14_AbsentOrNonEmpty ==
    file.exists
        => /\ Len(file.data) > 0
           /\ \E i \in 1 .. Len(arch) : arch[i][2] = arch[i][3]

\* the id of the last frame the cycles have appended, 0 when there is none
LastArchivedId == IF arch = <<>> THEN 0 ELSE arch[Len(arch)][1]

\* a writeNextBlocks cycle has just appended at least one frame
Appended == res.op = "write" /\ res.wrote # <<>>

RECURSIVE LastCompleteId(_)
LastCompleteId(a) ==
    IF a = <<>> THEN 0
    ELSE IF a[Len(a)][2] = a[Len(a)][3] THEN a[Len(a)][1]
    ELSE LastCompleteId(SubSeq(a, 1, Len(a) - 1))

\* C16 (write failure in mid-batch): a cycle whose write of frame j fails
\* returns the error with frames 1..j-1 whole in the file and nothing after
\* frame j, and the next cycle without failure reads back the id of the last
\* whole frame and continues with the ids right after it, none missing and
\* none repeated.
C16_WriteFailureResumes ==
    [][(res.op = "write" /\ res.fail.kind = "write"
            /\ res'.op = "write" /\ res'.fail = NoFail)
        => /\ res.err = "io"
           /\ IsPrefix(res.pre.data, file.data)
           /\ Len(res.wrote) <= res.fail.at
           /\ \A i \in 1 .. (res.fail.at - 1) : res.wrote[i][2] = res.wrote[i][3]
           /\ res'.err = "nil"
           /\ res'.last = LastCompleteId(arch)
           /\ \A i \in 1 .. Len(res'.wrote) : res'.wrote[i][1] = res'.last + i]_vars

\* C17 (locate errors stop the cycle): whenever getLastBlockID fails it
\* reports an error value instead of ending the process, and writeNextBlocks
\* returns that error without asking the ledger and without creating or
\* appending to the archive.
C17_LocateErrorsStopCycle ==
    (res.op \in {"write", "locate"} /\ res.located # "nil")
        => /\ res.located # "panic"
           /\ res.err = res.located
           /\ res.op = "write"
                  => (~res.queried /\ res.wrote = <<>> /\ file = res.pre)

----------------------------------------------------------------------------
(* The periodic job: a growing ledger and cycles that meet no I/O error *)

\* the fixed minToSave of the periodic cycles
LiveBatch == 1

\* the job runs writeNextBlocks with the same minToSave, the environment
\* failing nothing
Cycle == WriteNextBlocks(LiveBatch, NoFail)

NextLive ==
    \/ \E n \in LedgerLens : NewBlock(n)
    \/ Cycle

\* a cycle that left and returned w has changed the state
ChangedBy(w) ==
    \/ w.file # file
    \/ w.wrote # <<>>
    \/ res # [op |-> "write", err |-> w.err, located |-> w.located,
              last |-> w.last, min |-> LiveBatch, queried |-> w.queried,
              fail |-> NoFail, pre |-> file, wrote |-> w.wrote]

\* ENABLED <<Cycle>>_vars, as a state predicate
CycleChanges == ChangedBy(writeNextBlocks(file, blocks, LiveBatch, NoFail))

\* weak fairness of Cycle, WF_vars(Cycle), with its ENABLED written out
CycleFair == ([]<>(~CycleChanges)) \/ ([]<><<Cycle>>_vars)

\* the ledger keeps growing (up to MaxHeight) and the cycle keeps being run
SpecLive ==
    /\ Init
    /\ [][NextLive]_vars
    /\ WF_vars(\E n \in LedgerLens : NewBlock(n))
    /\ CycleFair

\* the ids of the frames that reached the file whole
ArchivedIds == {arch[i][1] : i \in {j \in 1 .. Len(arch) : arch[j][2] = arch[j][3]}}

\* the highest id whole batches of LiveBatch reach below MaxHeight
LiveTarget == MaxHeight - (MaxHeight % LiveBatch)

\* C18 (catch-up progress): with a fixed min_batch >= 1, a contiguous ledger
\* that keeps growing, payloads within max_block_size and cycles repeated
\* without I/O errors, every block id is eventually present in the archive.
C18_CatchUpProgress ==
    \A b \in 1 .. LiveTarget : <>(b \in ArchivedIds)

\* C19 (batch-sized steps bounded by the height): with a contiguous ledger
\* and no I/O error, every writeNextBlocks cycle leaves the last archived id
\* unchanged or raises it by exactly min_batch, and in every state the last
\* archived id is at most the current chain height.
C19_BatchSizedSteps ==
    [][/\ (res'.op = "write" /\ res'.fail = NoFail)
              => \/ LastArchivedId' = LastArchivedId
                 \/ LastArchivedId' = LastArchivedId + res'.min
       /\ LastArchivedId' <= Len(blocks')]_vars

C19_Witness ==
    /\ res.op = "write" /\ res.fail = NoFail /\ res.err = "nil"
    /\ res.min >= 1
    /\ res.last >= 1
    /\ Len(res.wrote) = res.min
    /\ LastArchivedId = res.last + res.min
    /\ LastArchivedId < Len(blocks)

====
